---- MODULE Spec2Model ----
(***************************************************************************)
(* A model of ddnss.py, the ddnss.de update client: main() resolves host,  *)
(* key and the IPv4 preference from the command line and an INI file,      *)
(* update() builds the provider URL and update_url() issues one GET and    *)
(* classifies the response body with REGEX.                                *)
(*                                                                         *)
(* Text is modelled as sequences of one-character strings and a response   *)
(* body as a sequence of byte values, so that percent-encoding, decoding   *)
(* and the regular expression work on characters as the code does.         *)
(* An optional value (Python's None or a value) is <<>> or <<value>>.      *)
(***************************************************************************)
EXTENDS Integers, Sequences, FiniteSets, TLC

VARIABLES
    pc,        \* the line of main()/update_url() about to run, or "done"
    args,      \* the Namespace get_args() returned
    file,      \* the file at args.config_file
    config,    \* the ConfigParser of main()
    ipv4,      \* main()'s local ipv4
    key,       \* main()'s local key
    requests,  \* the URLs urlopen() was called with, in order
    net,       \* what the network did with the request
    body,      \* the bytes of the response body
    text,      \* update_url()'s local text
    message,   \* the value update() returned
    exc,       \* the exception in flight
    log,       \* the records the logging handler emitted
    result     \* how main() ended

vars == <<pc, args, file, config, ipv4, key, requests, net, body, text,
          message, exc, log, result>>

None == <<>>
Some(x) == <<x>>

Min(S) == CHOOSE x \in S : \A y \in S : x <= y
Max(S) == CHOOSE x \in S : \A y \in S : x >= y

(***************************************************************************)
(* Characters.                                                             *)
(***************************************************************************)
\* The printable ASCII characters, chr(32) .. chr(126); chr(96), which a
\* TLA+ string cannot hold, is written "GRAVE".
Ascii == <<" ", "!", "\"", "#", "$", "%", "&", "'", "(", ")", "*", "+", ",",
           "-", ".", "/", "0", "1", "2", "3", "4", "5", "6", "7", "8", "9",
           ":", ";", "<", "=", ">", "?", "@", "A", "B", "C", "D", "E", "F",
           "G", "H", "I", "J", "K", "L", "M", "N", "O", "P", "Q", "R", "S",
           "T", "U", "V", "W", "X", "Y", "Z", "[", "\\", "]", "^", "_", "GRAVE",
           "a", "b", "c", "d", "e", "f", "g", "h", "i", "j", "k", "l", "m",
           "n", "o", "p", "q", "r", "s", "t", "u", "v", "w", "x", "y", "z",
           "{", "|", "}", "~">>

Ord(c) == IF c = "\n" THEN 10 ELSE 31 + CHOOSE i \in 1..Len(Ascii) : Ascii[i] = c
Chr(b) == IF b = 10 THEN "\n" ELSE Ascii[b - 31]

HexDigits == <<"0", "1", "2", "3", "4", "5", "6", "7", "8", "9",
               "A", "B", "C", "D", "E", "F">>

IsDigit(c) == c \in {"0", "1", "2", "3", "4", "5", "6", "7", "8", "9"}
IsAlpha(c) == \E i \in 1..Len(Ascii) :
                 /\ Ascii[i] = c
                 /\ \/ i + 31 \in 65..90
                    \/ i + 31 \in 97..122

\* str.encode() and bytes.decode() on the modelled characters (UTF-8 of
\* ASCII is one byte per character; no byte above 127 starts or continues
\* a sequence unless more bytes of the right form follow).
Encode(s) == [i \in 1..Len(s) |-> Ord(s[i])]
Decodable(b) == \A i \in 1..Len(b) : b[i] = 10 \/ b[i] \in 32..126
Decode(b) == [i \in 1..Len(b) |-> Chr(b[i])]

(***************************************************************************)
(* Module constants.                                                       *)
(***************************************************************************)
REGEX_Prefix == <<"U", "p", "d", "a", "t", "e", "d", " ">>
REGEX_Suffix == <<" ", "h", "o", "s", "t", "n", "a", "m", "e", ".">>

URL == [scheme |-> <<"h", "t", "t", "p", "s">>,
        netloc |-> <<"d", "d", "n", "s", "s", ".", "d", "e">>,
        path   |-> <<"u", "p", "d", ".", "p", "h", "p">>]
URLv4 == [scheme |-> <<"h", "t", "t", "p", "s">>,
          netloc |-> <<"i", "p", "4", ".", "d", "d", "n", "s", "s", ".", "d", "e">>,
          path   |-> <<"u", "p", "d", ".", "p", "h", "p">>]

(***************************************************************************)
(* Exceptions: the classes the code raises or names, and isinstance().     *)
(***************************************************************************)
NoExc == [type |-> "None", payload |-> <<>>]
Exc(t, p) == [type |-> t, payload |-> p]

BaseOf == [Exception |-> "BaseException",
           Error |-> "Exception", NoSectionError |-> "Error",
           NoOptionError |-> "Error", ParsingError |-> "Error",
           LookupError |-> "Exception", KeyError |-> "LookupError",
           ValueError |-> "Exception", UnicodeError |-> "ValueError",
           UnicodeDecodeError |-> "UnicodeError",
           OSError |-> "Exception", URLError |-> "OSError",
           HTTPError |-> "URLError", TimeoutError |-> "OSError",
           ConnectionError |-> "OSError",
           ConnectionResetError |-> "ConnectionError",
           UpdateError |-> "Exception"]

RECURSIVE IsInstance(_, _)
IsInstance(t, cls) ==
    IF t = cls THEN TRUE
    ELSE IF t \in DOMAIN BaseOf THEN IsInstance(BaseOf[t], cls)
    ELSE FALSE

(***************************************************************************)
(* logging: basicConfig(level=DEBUG if args.verbose else INFO).            *)
(***************************************************************************)
LevelNo == [DEBUG |-> 10, INFO |-> 20, ERROR |-> 40]

Emit(l, verbose, level, fmt, arg) ==
    IF LevelNo[level] >= (IF verbose THEN LevelNo["DEBUG"] ELSE LevelNo["INFO"])
    THEN Append(l, [level |-> level, fmt |-> fmt, arg |-> arg])
    ELSE l

(***************************************************************************)
(* configparser.ConfigParser: a mapping of section names to options, the   *)
(* options of [DEFAULT] being visible in every section.                    *)
(***************************************************************************)
EmptyConfig == [defaults |-> <<>>, sections |-> <<>>]
DEFAULTSECT == <<"D", "E", "F", "A", "U", "L", "T">>

BOOLEAN_STATES == [x \in {"1", "yes", "true", "on", "0", "no", "false", "off"}
                     |-> x \in {"1", "yes", "true", "on"}]

\* str.lower() on the option values the model writes into a file.
Lower(v) == CASE v = "True" -> "true"
              [] v = "False" -> "false"
              [] v = "Yes" -> "yes"
              [] OTHER -> v

\* ConfigParser._unify_values: the options visible in a section.
HasSection(cfg, section) == section \in DOMAIN cfg.sections

Unified(cfg, section) ==
    LET own == IF HasSection(cfg, section) THEN cfg.sections[section] ELSE <<>>
    IN  [o \in DOMAIN own \cup DOMAIN cfg.defaults |->
            IF o \in DOMAIN own THEN own[o] ELSE cfg.defaults[o]]

\* ConfigParser.get(section, option) without a fallback.
ConfigGet(cfg, section, option) ==
    IF ~HasSection(cfg, section) /\ section # DEFAULTSECT
    THEN [exc |-> "NoSectionError", value |-> <<>>]
    ELSE IF option \notin DOMAIN Unified(cfg, section)
    THEN [exc |-> "NoOptionError", value |-> <<>>]
    ELSE [exc |-> "None", value |-> Unified(cfg, section)[option]]

\* ConfigParser.getboolean(section, option, fallback=fallback).
ConfigGetBoolean(cfg, section, option, fallback) ==
    LET got == ConfigGet(cfg, section, option)
    IN  IF got.exc \in {"NoSectionError", "NoOptionError"}
        THEN [exc |-> "None", value |-> fallback]
        ELSE IF Lower(got.value) \notin DOMAIN BOOLEAN_STATES
        THEN [exc |-> "ValueError", value |-> FALSE]
        ELSE [exc |-> "None", value |-> BOOLEAN_STATES[Lower(got.value)]]

(***************************************************************************)
(* urllib.parse: quote_plus, urlencode, urlunparse.                        *)
(***************************************************************************)
AlwaysSafe(c) == IsAlpha(c) \/ IsDigit(c) \/ c \in {"_", ".", "-", "~"}

\* quote_plus with '&' among the safe characters.
QuoteChar_AmpSafe(c) ==
    IF c = " " THEN <<"+">>
    ELSE IF AlwaysSafe(c) \/ c = "&" THEN <<c>>
    ELSE <<"%", HexDigits[(Ord(c) \div 16) + 1], HexDigits[(Ord(c) % 16) + 1]>>

QuoteChar(c) ==
    IF c = " " THEN <<"+">>
    ELSE IF AlwaysSafe(c) THEN <<c>>
    ELSE <<"%", HexDigits[(Ord(c) \div 16) + 1], HexDigits[(Ord(c) % 16) + 1]>>

RECURSIVE quote_plus(_)
quote_plus(s) ==
    IF s = <<>> THEN <<>> ELSE QuoteChar(Head(s)) \o quote_plus(Tail(s))

\* urlencode({'host': host, 'key': key})
urlencode(host, k) ==
    quote_plus(<<"h", "o", "s", "t">>) \o <<"=">> \o quote_plus(host)
      \o <<"&">>
      \o quote_plus(<<"k", "e", "y">>) \o <<"=">> \o quote_plus(k)

\* urlunparse([scheme, netloc, path, None, query, None])
urlunparse(scheme, netloc, path, query) ==
    LET p1 == IF netloc # <<>>
              THEN <<"/", "/">> \o netloc
                     \o (IF path # <<>> /\ Head(path) # "/" THEN <<"/">> ELSE <<>>)
                     \o path
              ELSE path
        p2 == IF scheme # <<>> THEN scheme \o <<":">> \o p1 ELSE p1
    IN  IF query # <<>> THEN p2 \o <<"?">> \o query ELSE p2

\* get_url with the two endpoints exchanged.
get_url_swapped(params, v4) ==
    LET u == IF v4 THEN URL ELSE URLv4
    IN  urlunparse(u.scheme, u.netloc, u.path, params)

get_url(params, v4) ==
    LET u == IF v4 THEN URLv4 ELSE URL
    IN  urlunparse(u.scheme, u.netloc, u.path, params)

(***************************************************************************)
(* re.search(REGEX, text): the leftmost match of                           *)
(* 'Updated ' \d+ ' hostname\.', \d+ greedy with backtracking.             *)
(***************************************************************************)
HasLiteral(t, i, lit) ==
    /\ i >= 1
    /\ i + Len(lit) - 1 <= Len(t)
    /\ \A j \in 1..Len(lit) : t[i + j - 1] = lit[j]

RECURSIVE DigitRun(_, _)
DigitRun(t, i) ==
    IF i <= Len(t) /\ IsDigit(t[i]) THEN 1 + DigitRun(t, i + 1) ELSE 0

\* The index of the last character of the match starting at i, or 0.
MatchEnd(t, i) ==
    IF ~HasLiteral(t, i, REGEX_Prefix) THEN 0
    ELSE LET d == i + Len(REGEX_Prefix)
             ns == {n \in 1..DigitRun(t, d) : HasLiteral(t, d + n, REGEX_Suffix)}
         IN  IF ns = {} THEN 0 ELSE d + Max(ns) + Len(REGEX_Suffix) - 1

\* The rightmost match instead of the leftmost.
re_search_last(t) ==
    LET starts == {i \in 1..Len(t) : MatchEnd(t, i) # 0}
    IN  IF starts = {} THEN None
        ELSE Some(SubSeq(t, Max(starts), MatchEnd(t, Max(starts))))

\* match.group(1) of the leftmost match, or None.
re_search(t) ==
    LET starts == {i \in 1..Len(t) : MatchEnd(t, i) # 0}
    IN  IF starts = {} THEN None
        ELSE Some(SubSeq(t, Min(starts), MatchEnd(t, Min(starts))))

(***************************************************************************)
(* The inputs of a run: the command line, the configuration file and what  *)
(* the provider answers.                                                   *)
(***************************************************************************)
HostA == <<"a">>
HostB == <<"b">>
CliHosts == {HostA, HostB}
CliKey == <<"k", "&", "1">>

\* The key a file gives in the section of that name.
FileKey(section) == <<"k">> \o section

\* The options of one section: key present or not, ipv4 absent or one of
\* the written values.
Ipv4Values == {"Yes", "False", "maybe"}

Options(k, flag) ==
    [o \in (IF k = None THEN {} ELSE {"key"})
             \cup (IF flag = None THEN {} ELSE {"ipv4"}) |->
        IF o = "key" THEN k[1] ELSE flag[1]]

SectionContents(section) ==
    {Options(k, f) : k \in {None, Some(FileKey(section))},
                     f \in {None} \cup {Some(v) : v \in Ipv4Values}}

FileContents ==
    UNION {[defaults : SectionContents(DEFAULTSECT),
            sections : [S -> UNION {SectionContents(s) : s \in S}]]
           : S \in SUBSET {HostA, HostB}}

WellFormed(c) ==
    \A s \in DOMAIN c.sections : c.sections[s] \in SectionContents(s)

Files ==
    {[state |-> "absent", content |-> EmptyConfig],
     [state |-> "malformed", content |-> EmptyConfig]}
    \cup {[state |-> "ok", content |-> c] : c \in {d \in FileContents : WellFormed(d)}}

Str_Updated3 == <<"U", "p", "d", "a", "t", "e", "d", " ", "3", " ",
                  "h", "o", "s", "t", "n", "a", "m", "e", ".", "\n">>
Str_BadKey == <<"B", "a", "d", " ", "k", "e", "y", ".">>

\* What the provider may send as a body; 255 is a byte no UTF-8 text holds.
ResponseBodies == {Encode(Str_Updated3), Encode(Str_BadKey), <<255>>}

Running == [kind |-> "running", code |-> 0, exc |-> NoExc]
Returned(code) == [kind |-> "return", code |-> code, exc |-> NoExc]
Raised(e) == [kind |-> "raise", code |-> 0, exc |-> e]

Init ==
    /\ pc = "l83"
    /\ args \in [host : CliHosts, key : {None, Some(CliKey)},
                 ipv4 : BOOLEAN, verbose : BOOLEAN]
    /\ file \in Files
    /\ config = EmptyConfig
    /\ ipv4 = None
    /\ key = None
    /\ requests = <<>>
    /\ net = "idle"
    /\ body = <<>>
    /\ text = <<>>
    /\ message = None
    /\ exc = NoExc
    /\ log = <<>>
    /\ result = Running

(***************************************************************************)
(* main()                                                                  *)
(***************************************************************************)
\* An exception no handler of main() catches leaves main().
Propagate(e) ==
    /\ pc' = "done"
    /\ exc' = e
    /\ result' = Raised(e)

\* config.read replaced by read_file(open(...)): a missing file raises.
ReadConfig_AbsentRaises ==
    /\ pc = "l83"
    /\ IF file.state # "ok"
       THEN /\ Propagate(Exc(IF file.state = "absent" THEN "OSError"
                                                      ELSE "ParsingError", <<>>))
            /\ UNCHANGED config
       ELSE /\ config' = file.content
            /\ pc' = "l84"
            /\ UNCHANGED <<exc, result>>
    /\ UNCHANGED <<args, file, ipv4, key, requests, net, body, text, message, log>>

\* config.read(args.config_file): a file that cannot be opened is skipped,
\* a file that cannot be parsed raises.
ReadConfig ==
    /\ pc = "l83"
    /\ IF file.state = "malformed"
       THEN /\ Propagate(Exc("ParsingError", <<>>))
            /\ UNCHANGED config
       ELSE /\ config' = IF file.state = "ok" THEN file.content ELSE config
            /\ pc' = "l84"
            /\ UNCHANGED <<exc, result>>
    /\ UNCHANGED <<args, file, ipv4, key, requests, net, body, text, message, log>>

\* ipv4 = config.getboolean(args.host, 'ipv4', fallback=args.ipv4)
GetBoolean ==
    /\ pc = "l84"
    /\ LET r == ConfigGetBoolean(config, args.host, "ipv4", args.ipv4)
       IN  IF r.exc # "None"
           THEN /\ Propagate(Exc(r.exc, <<>>))
                /\ UNCHANGED ipv4
           ELSE /\ ipv4' = Some(r.value)
                /\ pc' = "l86"
                /\ UNCHANGED <<exc, result>>
    /\ UNCHANGED <<args, file, config, key, requests, net, body, text, message, log>>

\* Key resolution written like line 84: the file first, args.key the fallback.
ResolveKey_ConfigFirst ==
    /\ pc = "l86"
    /\ LET r == ConfigGet(config, args.host, "key")
       IN  IF r.exc = "None"
           THEN /\ key' = Some(r.value)
                /\ pc' = "l94"
                /\ UNCHANGED <<exc, result, log>>
           ELSE IF args.key # None
           THEN /\ key' = args.key
                /\ pc' = "l94"
                /\ UNCHANGED <<exc, result, log>>
           ELSE /\ Propagate(Exc(r.exc, <<>>))
                /\ UNCHANGED <<key, log>>
    /\ UNCHANGED <<args, file, config, ipv4, requests, net, body, text, message>>

\* if (key := args.key) is None: try: key = config.get(args.host, 'key')
\* except KeyError: error, return 2
ResolveKey ==
    /\ pc = "l86"
    /\ IF args.key # None
       THEN /\ key' = args.key
            /\ pc' = "l94"
            /\ UNCHANGED <<exc, result, log>>
       ELSE LET r == ConfigGet(config, args.host, "key")
            IN  IF r.exc = "None"
                THEN /\ key' = Some(r.value)
                     /\ pc' = "l94"
                     /\ UNCHANGED <<exc, result, log>>
                ELSE IF IsInstance(r.exc, "KeyError")
                THEN /\ log' = Emit(log, args.verbose, "ERROR",
                                    "No key configured for host \"%s\".", args.host)
                     /\ pc' = "done"
                     /\ result' = Returned(2)
                     /\ UNCHANGED <<key, exc>>
                ELSE /\ Propagate(Exc(r.exc, <<>>))
                     /\ UNCHANGED <<key, log>>
    /\ UNCHANGED <<args, file, config, ipv4, requests, net, body, text, message>>

(***************************************************************************)
(* update(args.host, key, ipv4=ipv4) and update_url(url)                   *)
(***************************************************************************)
NetOutcomes == {"unreachable", "http_error", "no_response", "response"}

\* update() builds the URL; update_url() logs it and calls urlopen(url).
\* urlopen raises URLError when the connection cannot be made, HTTPError
\* for an error status, and lets an OSError of http.client's getresponse()
\* through as it is; otherwise it returns the response.
UrlOpen ==
    /\ pc = "l94"
    /\ LET url == get_url(urlencode(args.host, key[1]), ipv4[1])
       IN  /\ log' = Emit(log, args.verbose, "DEBUG", "Updating URL: %s", url)
           /\ requests' = Append(requests, url)
    /\ \E outcome \in NetOutcomes :
        /\ net' = outcome
        /\ CASE outcome = "unreachable" ->
                  /\ exc' = Exc("URLError", <<>>)
                  /\ pc' = "l95"
                  /\ UNCHANGED body
             [] outcome = "http_error" ->
                  /\ exc' = Exc("HTTPError", <<>>)
                  /\ pc' = "l95"
                  /\ UNCHANGED body
             [] outcome = "no_response" ->
                  /\ exc' = Exc("TimeoutError", <<>>)
                  /\ pc' = "l95"
                  /\ UNCHANGED body
             [] outcome = "response" ->
                  /\ body' \in ResponseBodies
                  /\ pc' = "l42"
                  /\ UNCHANGED exc
    /\ UNCHANGED <<args, file, config, ipv4, key, text, message, result>>

\* text = response.read().decode(): the connection may break while the body
\* is read, and the bytes read may be no UTF-8 text.
ReadBody ==
    /\ pc = "l42"
    /\ \/ /\ net' = "broken"
          /\ exc' = Exc("ConnectionResetError", <<>>)
          /\ pc' = "l95"
          /\ UNCHANGED text
       \/ /\ Decodable(body)
          /\ text' = Decode(body)
          /\ pc' = "l44"
          /\ UNCHANGED <<net, exc>>
       \/ /\ ~Decodable(body)
          /\ exc' = Exc("UnicodeDecodeError", <<>>)
          /\ pc' = "l95"
          /\ UNCHANGED <<net, text>>
    /\ UNCHANGED <<args, file, config, ipv4, key, requests, body, message, log, result>>

\* if match := search(REGEX, text): return match.group(1)
\* raise UpdateError(text)
Search ==
    /\ pc = "l44"
    /\ LET m == re_search(text)
       IN  IF m # None
           THEN /\ message' = m
                /\ pc' = "l104"
                /\ UNCHANGED exc
           ELSE /\ exc' = Exc("UpdateError", text)
                /\ pc' = "l95"
                /\ UNCHANGED message
    /\ UNCHANGED <<args, file, config, ipv4, key, requests, net, body, text, log, result>>

\* except URLError: ... return 3; except UpdateError: ... return 4
Except ==
    /\ pc = "l95"
    /\ IF IsInstance(exc.type, "URLError")
       THEN /\ log' = Emit(Emit(log, args.verbose, "ERROR",
                                "Failed to connect to service.", <<>>),
                           args.verbose, "DEBUG", "%s", exc.payload)
            /\ pc' = "done"
            /\ result' = Returned(3)
            /\ exc' = NoExc
       ELSE IF IsInstance(exc.type, "UpdateError")
       THEN /\ log' = Emit(Emit(log, args.verbose, "ERROR",
                                "Failed to update host.", <<>>),
                           args.verbose, "DEBUG", "%s", exc.payload)
            /\ pc' = "done"
            /\ result' = Returned(4)
            /\ exc' = NoExc
       ELSE /\ Propagate(exc)
            /\ UNCHANGED log
    /\ UNCHANGED <<args, file, config, ipv4, key, requests, net, body, text, message>>

\* LOGGER.info(message); return 0
LogSuccess ==
    /\ pc = "l104"
    /\ log' = Emit(log, args.verbose, "INFO", "%s", message[1])
    /\ pc' = "done"
    /\ result' = Returned(0)
    /\ UNCHANGED <<args, file, config, ipv4, key, requests, net, body, text, message, exc>>

Next ==
    \/ ReadConfig
    \/ GetBoolean
    \/ ResolveKey
    \/ UrlOpen
    \/ ReadBody
    \/ Search
    \/ Except
    \/ LogSuccess

Spec == Init /\ [][Next]_vars

(***************************************************************************)
(* Properties of a run of main().                                          *)
(***************************************************************************)
Str_DualStack ==
    <<"h", "t", "t", "p", "s", ":", "/", "/", "d", "d", "n", "s", "s", ".",
    "d", "e", "/", "u", "p", "d", ".", "p", "h", "p", "?", "h", "o", "s",
    "t", "=">>
Str_Ipv4Only ==
    <<"h", "t", "t", "p", "s", ":", "/", "/", "i", "p", "4", ".", "d", "d",
    "n", "s", "s", ".", "d", "e", "/", "u", "p", "d", ".", "p", "h", "p",
    "?", "h", "o", "s", "t", "=">>
Str_AmpKey == <<"&", "k", "e", "y", "=">>

\* https://<endpoint>/upd.php?host=<host>&key=<key>, both values quoted.
ExpectedUrl(host, k, v4) ==
    (IF v4 THEN Str_Ipv4Only ELSE Str_DualStack)
      \o quote_plus(host) \o Str_AmpKey \o quote_plus(k)

\* What the file itself says under a section, [DEFAULT] left aside.
OwnOptions(section) ==
    IF file.state = "ok" /\ section \in DOMAIN file.content.sections
    THEN file.content.sections[section]
    ELSE <<>>

FileHasOwnKey(section) == "key" \in DOMAIN OwnOptions(section)

Ended == pc = "done"

\* C1: a run without --key whose file has no section for the host, or has
\* the section without a key option, ends with exit code 2 and issues no
\* request. Stated for the runs that reach key resolution (the file is
\* absent or parses and line 84 returned); the code leaves with
\* NoSectionError or NoOptionError instead.
C1_MissingKeyExits2 ==
    (/\ Ended
     /\ args.key = None
     /\ file.state # "malformed"
     /\ ipv4 # None
     /\ ~FileHasOwnKey(args.host))
    => (result = Returned(2) /\ requests = <<>>)

\* C2: with --ipv4 set the resolved ipv4 is true, whatever the file says,
\* and the request goes to the IPv4-only endpoint. The code lets the
\* file's value win.
C2_CliFlagWins ==
    (args.ipv4 /\ ipv4 # None)
    => /\ ipv4 = Some(TRUE)
       /\ \A i \in 1..Len(requests) :
            SubSeq(requests[i], 1, Len(Str_Ipv4Only)) = Str_Ipv4Only

\* C3: a run that resolves a key issues exactly one GET, to the dual-stack
\* URL when ipv4 is false and to the IPv4-only URL when it is true, and
\* none before the key is resolved or after the request ended.
C3_ExactlyOneRequest ==
    /\ Len(requests) <= 1
    /\ key = None => requests = <<>>
    /\ (key # None /\ pc # "l94")
       => requests = <<ExpectedUrl(args.host, key[1], ipv4[1])>>

C3_Witness ==
    /\ Ended
    /\ key # None
    /\ ipv4 = Some(TRUE)
    /\ result = Returned(4)
    /\ Len(requests) = 1

\* C4: a transport failure, while the connection is opened or while the
\* response is read, ends the run with exit code 3. The code catches only
\* URLError; what getresponse() and read() raise leaves main().
C4_TransportFailureExits3 ==
    (Ended /\ net \in {"unreachable", "no_response", "broken"})
    => result = Returned(3)

\* C5: when the provider responded without the success pattern (an error
\* status included) the run ends with exit code 4, the error line is the
\* generic one and the body is logged at debug level only. The code
\* returns 3 for an error status.
ProviderRefused ==
    \/ net = "http_error"
    \/ /\ net = "response"
       /\ pc \notin {"l42"}
       /\ (~Decodable(body) \/ re_search(Decode(body)) = None)

C5_RefusalExits4 ==
    (Ended /\ ProviderRefused)
    => /\ result = Returned(4)
       /\ \E i \in 1..Len(log) :
            log[i].level = "ERROR" /\ log[i].fmt = "Failed to update host."
       /\ \A i \in 1..Len(log) :
            (log[i].fmt = "%s" /\ log[i].arg = text) => log[i].level = "DEBUG"

\* C6: main() always returns 0, 2, 3 or 4, no exception leaves it, and it
\* returns 0 only with a success message, logged once. The code lets the
\* exceptions of configparser, of getresponse()/read() and of decode()
\* through.
C6_AlwaysReturnsExitCode ==
    Ended
    => /\ result.kind = "return"
       /\ result.code \in {0, 2, 3, 4}
       /\ result.code = 0
          => /\ message # None
             /\ Cardinality({i \in 1..Len(log) : log[i].level = "INFO"}) = 1

\* C7 as stated: with --key supplied and the file absent or unparsable,
\* the request is issued with the values of the command line.
C7_AbsentOrUnparsableIsEmpty ==
    (Ended /\ args.key # None /\ file.state \in {"absent", "malformed"})
    => requests = <<ExpectedUrl(args.host, args.key[1], args.ipv4)>>

\* C7, amended: with --key supplied and the file absent, the configuration
\* stays empty, ipv4 and key are those of the command line, and the
\* request is issued with them.
C7_AbsentIsEmpty ==
    (args.key # None /\ file.state = "absent")
    => /\ config = EmptyConfig
       /\ ipv4 # None => ipv4 = Some(args.ipv4)
       /\ key # None => key = args.key
       /\ Ended => requests = <<ExpectedUrl(args.host, args.key[1], args.ipv4)>>

C7_Witness ==
    /\ Ended
    /\ args.key # None
    /\ args.ipv4
    /\ file.state = "absent"
    /\ result = Returned(0)
    /\ Len(requests) = 1

\* C8 as stated: the key sent is --key when supplied, otherwise the key
\* option the file gives in the section named by the host.
C8_KeyOfHostSection ==
    requests # <<>>
    => IF args.key # None
       THEN requests[1] = ExpectedUrl(args.host, args.key[1], ipv4[1])
       ELSE /\ FileHasOwnKey(args.host)
            /\ requests[1] = ExpectedUrl(args.host, OwnOptions(args.host)["key"],
                                         ipv4[1])

\* C8, amended: the key sent is --key when supplied; otherwise the section
\* named by the host exists and the key is its own key option or, when it
\* has none, the key option of [DEFAULT]. The host is the one of the
\* command line and the key of another host's section is never sent.
C8_KeyResolution ==
    requests # <<>>
    => /\ \A h \in CliHosts \ {args.host} :
            requests[1] # ExpectedUrl(args.host, FileKey(h), ipv4[1])
       /\ IF args.key # None
          THEN requests[1] = ExpectedUrl(args.host, args.key[1], ipv4[1])
          ELSE /\ args.host \in DOMAIN file.content.sections
               /\ requests[1] =
                    ExpectedUrl(args.host,
                                IF FileHasOwnKey(args.host)
                                THEN OwnOptions(args.host)["key"]
                                ELSE file.content.defaults["key"],
                                ipv4[1])

C8_Witness ==
    /\ requests # <<>>
    /\ args.key = None
    /\ ~FileHasOwnKey(args.host)
    /\ \E h \in CliHosts \ {args.host} : FileHasOwnKey(h)

(***************************************************************************)
(* update_url() on the bodies a provider can send: the run from line 42    *)
(* on, after urlopen() returned a response, for every body made of at most *)
(* MaxPieces of the pieces below.                                          *)
(***************************************************************************)
MaxPieces == 4

Str_Updated4 ==
    <<"U", "p", "d", "a", "t", "e", "d", " ", "4", " ", "h", "o", "s", "t",
    "n", "a", "m", "e", ".">>

BodyPieces ==
    {Encode(Str_Updated4), Encode(REGEX_Prefix), Encode(<<"3">>),
     Encode(REGEX_Suffix), Encode(<<"\n">>), <<255>>}

RECURSIVE Joined(_, _)
Joined(pieces, n) ==
    IF n = 0 THEN {<<>>}
    ELSE LET shorter == Joined(pieces, n - 1)
         IN  shorter \cup {s \o p : s \in shorter, p \in pieces}

InitRe ==
    /\ pc = "l42"
    /\ args \in [host : {HostA}, key : {Some(CliKey)},
                 ipv4 : {FALSE}, verbose : BOOLEAN]
    /\ file = [state |-> "absent", content |-> EmptyConfig]
    /\ config = EmptyConfig
    /\ ipv4 = Some(args.ipv4)
    /\ key = args.key
    /\ requests = <<get_url(urlencode(args.host, key[1]), ipv4[1])>>
    /\ net = "response"
    /\ body \in Joined(BodyPieces, MaxPieces)
    /\ text = <<>>
    /\ message = None
    /\ exc = NoExc
    /\ log = Emit(<<>>, args.verbose, "DEBUG", "Updating URL: %s", requests[1])
    /\ result = Running

NextRe ==
    \/ ReadBody
    \/ Search
    \/ Except
    \/ LogSuccess

SpecRe == InitRe /\ [][NextRe]_vars

\* t[i..j] has the shape 'Updated <N> hostname.', <N> one or more digits.
ShapeAt(t, i, j) ==
    /\ HasLiteral(t, i, REGEX_Prefix)
    /\ j <= Len(t)
    /\ i + Len(REGEX_Prefix) <= j - Len(REGEX_Suffix)
    /\ HasLiteral(t, j - Len(REGEX_Suffix) + 1, REGEX_Suffix)
    /\ \A k \in (i + Len(REGEX_Prefix))..(j - Len(REGEX_Suffix)) : IsDigit(t[k])

Occurrences(t) ==
    {o \in (1..Len(t)) \X (1..Len(t)) : ShapeAt(t, o[1], o[2])}

FirstOccurrence(t) ==
    LET o == CHOOSE x \in Occurrences(t) : \A y \in Occurrences(t) : x[1] <= y[1]
    IN  SubSeq(t, o[1], o[2])

SearchReturned == pc = "l104"
SearchRaised == pc = "l95" /\ exc.type = "UpdateError"

MaxLen == 2

ArgPieces == {<<"a">>, <<" ">>, <<"&">>, <<"=">>, <<"+">>, <<"%", "2", "5">>}

InitUrl ==
    /\ pc = "l94"
    /\ args \in [host : Joined(ArgPieces, MaxLen),
                 key : {Some(k) : k \in Joined(ArgPieces, MaxLen)},
                 ipv4 : {FALSE}, verbose : {FALSE}]
    /\ file = [state |-> "absent", content |-> EmptyConfig]
    /\ config = EmptyConfig
    /\ ipv4 = Some(args.ipv4)
    /\ key = args.key
    /\ requests = <<>>
    /\ net = "idle"
    /\ body = <<>>
    /\ text = <<>>
    /\ message = None
    /\ exc = NoExc
    /\ log = <<>>
    /\ result = Running

NextUrl == UrlOpen

SpecUrl == InitUrl /\ [][NextUrl]_vars

\* Decoding a query string as the receiving side does: fields split at
\* '&', name and value at the first '=', '+' a space, %XX the character
\* with that code.
IndexOf(s, c) ==
    IF \E i \in 1..Len(s) : s[i] = c
    THEN Min({i \in 1..Len(s) : s[i] = c})
    ELSE 0

RECURSIVE Split(_, _)
Split(s, c) ==
    IF IndexOf(s, c) = 0 THEN <<s>>
    ELSE <<SubSeq(s, 1, IndexOf(s, c) - 1)>>
           \o Split(SubSeq(s, IndexOf(s, c) + 1, Len(s)), c)

IsHex(c) == \E i \in 1..Len(HexDigits) : HexDigits[i] = c
HexVal(c) == (CHOOSE i \in 1..Len(HexDigits) : HexDigits[i] = c) - 1

RECURSIVE unquote_plus(_)
unquote_plus(s) ==
    IF s = <<>> THEN <<>>
    ELSE IF Head(s) = "+" THEN <<" ">> \o unquote_plus(Tail(s))
    ELSE IF Head(s) = "%" /\ Len(s) >= 3 /\ IsHex(s[2]) /\ IsHex(s[3])
    THEN LET code == 16 * HexVal(s[2]) + HexVal(s[3])
         IN  <<IF code \in 32..126 THEN Chr(code) ELSE "?">>
               \o unquote_plus(SubSeq(s, 4, Len(s)))
    ELSE <<Head(s)>> \o unquote_plus(Tail(s))

ParseQuery(q) ==
    LET fields == Split(q, "&")
    IN  [i \in 1..Len(fields) |->
            LET e == IndexOf(fields[i], "=")
            IN  IF e = 0 THEN <<unquote_plus(fields[i]), <<>>>>
                ELSE <<unquote_plus(SubSeq(fields[i], 1, e - 1)),
                       unquote_plus(SubSeq(fields[i], e + 1, Len(fields[i])))>>]

QueryOf(url) == SubSeq(url, IndexOf(url, "?") + 1, Len(url))

\* C10: decoding the query string of the requested URL gives exactly the
\* two parameters host and key, with the host and the key update() was
\* called with.
C10_QueryRoundTrip ==
    \A i \in 1..Len(requests) :
        /\ IndexOf(requests[i], "?") # 0
        /\ ParseQuery(QueryOf(requests[i]))
             = << <<(<<"h", "o", "s", "t">>), args.host>>,
                  <<(<<"k", "e", "y">>), key[1]>> >>

C10_Witness ==
    /\ requests # <<>>
    /\ \E i \in 1..Len(args.host) : args.host[i] = "&"
    /\ \E i \in 1..Len(key[1]) : key[1][i] \in {"=", " ", "%"}

====
